---- MODULE Spec2Model ----
(***************************************************************************)
(* LeadRing: the polling / diff core of the three server variants          *)
(*   src/server.ts          (express + ws,   tokens in a cookie)           *)
(*   src/unnamed/part_000   (socket.io,      tokens in a cookie session,   *)
(*                           process-wide activeMonitors map)              *)
(*   src/unnamed/part_001   (hono + ws,      tokens in the message)        *)
(* A "session" is one invocation of the start-monitoring handler: the      *)
(* closure that owns `lastRowCount` and the interval it creates.           *)
(* A read (checkLeads) is asynchronous: it is issued, the spreadsheet      *)
(* service answers it at some moment (Serve), and the awaiting code        *)
(* resumes at some later moment (BaselineDone / TickDone).                 *)
(***************************************************************************)
EXTENDS Integers, Sequences, FiniteSets, TLC

\* ------------------------------------------------------------ bounds
NumConns    == 2      \* connections the server accepts in a run
MaxSessions == 2      \* start-monitoring messages handled in a run
MaxTicks    == 2      \* interval firings in a run
MaxAppends  == 2      \* rows appended to the spreadsheets in a run
LongSessions == 1     \* the same two bounds for the runs that follow one
LongTicks    == 3     \*   session over more interval firings
MaxIdLen     == 6     \* characters in the client's input field, and
TypingEmits  == 1     \*   messages emitted, when the text is edited by keys
ShortIdLen   == 3     \* characters in the input field, and
MaxEmits     == 2     \*   messages emitted, when whole texts are entered
MaxLogouts   == 2     \* handleLogout calls waiting for their fetch at a time
MaxBatches   == 4     \* new-leads messages the client receives in a run
MaxDeletes   == 1     \* rows deleted from the spreadsheets in such a run

PairTicks    == 1     \* interval firings and appended rows in the runs with
PairAppends  == 1     \*   several connections

\* The shape of the runs checked for progress: one session, few firings, on
\* sheets that grow and lose rows.
LiveShape ==
  [conns |-> 1, sessions |-> LongSessions, ticks |-> MaxTicks,
   appends |-> MaxAppends, deletes |-> MaxDeletes]

\* A run is bounded in one of four shapes: one connection with several
\* sessions and few interval firings on sheets that only grow; one connection
\* with few sessions and several firings on sheets that also lose rows; several
\* connections with few firings; and LiveShape.
RunShapes ==
  { [conns |-> 1, sessions |-> MaxSessions,  ticks |-> MaxTicks,
     appends |-> MaxAppends, deletes |-> 0],
    [conns |-> 1, sessions |-> LongSessions, ticks |-> LongTicks,
     appends |-> MaxAppends, deletes |-> MaxDeletes],
    [conns |-> NumConns, sessions |-> MaxSessions, ticks |-> PairTicks,
     appends |-> PairAppends, deletes |-> 0],
    LiveShape }

\* A run of the client is bounded in one of two shapes: the text of the input
\* field is edited at its end, a character at a time, or cleared, and grows
\* long; or any short text replaces the text at once and more messages are
\* emitted. `pastes` is the longest text entered at once.
TypingShape == [idLen |-> MaxIdLen,   pastes |-> 0,          emits |-> TypingEmits]
PasteShape  == [idLen |-> ShortIdLen, pastes |-> ShortIdLen, emits |-> MaxEmits]
ClientShapes == {TypingShape, PasteShape}

Conns     == 1..NumConns
Variants  == {"server", "part_000", "part_001"}
SheetIds  == {"s1", "s2"}
EmptyId   == ""
NoHandle  == 0        \* null / absent interval handle
Sentinel  == 0 - 1    \* let lastRowCount = -1

VARIABLES
  limits,           \* the bounds of this run (one of RunShapes; one of
                    \*   ClientShapes in the runs of the client)
  variant,          \* which server file is running
  connState,        \* connState[c] \in {"none", "open", "closed"}
  sessionTokens,    \* sessionTokens[c]: credentials stored for the connection
  monitorInterval,  \* server.ts / part_001: let monitorInterval (per connection)
  activeMonitors,   \* part_000: Map socket.id -> interval
  sessions,         \* one record per start-monitoring closure, in start order
  reads,            \* checkLeads calls in flight, in issue order
  sheet,            \* sheet[id]: the rows of the external spreadsheet
  nextRow,          \* rows appended so far (gives each row its content)
  deleted,          \* rows deleted so far
  ticked,           \* interval firings so far
  sent              \* every ws.send / socket.emit performed, in order

\* The browser client (App.tsx), modelled apart from the servers.
VARIABLES
  spreadsheetId,    \* the text of the input field, a sequence of characters
  isMonitoring,     \* the client's isMonitoring flag
  emitted,          \* what the client has emitted on its socket, in order
  authenticated,    \* "loading" (null), "yes" (true) or "no" (false)
  logoutsPending,   \* handleLogout calls waiting for their fetch
  leads,            \* the client's feed, newest first
  received          \* new-leads messages the client has received so far

feedVars == <<leads, received>>

authVars == <<authenticated, logoutsPending>>

clientVars == <<spreadsheetId, isMonitoring, emitted, authVars, feedVars>>

serverVars == <<limits, variant, connState, sessionTokens, monitorInterval, activeMonitors,
          sessions, reads, sheet, nextRow, deleted, ticked, sent>>

vars == <<serverVars, clientVars>>

\* ------------------------------------------------------------ helpers
\* Array.prototype.slice(start): the elements from index `start` (0-based) on.
Slice(rows, start) == SubSeq(rows, start + 1, Len(rows))

RemoveAt(q, i) == SubSeq(q, 1, i - 1) \o SubSeq(q, i + 1, Len(q))

\* clearInterval(h): the interval stops firing; clearing twice is harmless.
ClearInterval(ss, h) ==
  IF h = NoHandle THEN ss ELSE [ss EXCEPT ![h].interval = "cleared"]

\* The credentials a start-monitoring is handled with: the tokens stored for
\* the connection (cookie / session), or in part_001 those the message carries.
HasCredentials(c, tok) ==
  IF variant = "part_001" THEN tok ELSE sessionTokens[c]

\* A guard that looks at the spreadsheet id only.
RejectedOnIdOnly(c, id, tok) == id = EmptyId

\* The guard at the head of the start-monitoring handler of variant v.
RejectedIn(v, c, id, tok) ==
  CASE v = "server"   -> ~sessionTokens[c]
    [] v = "part_000" -> id = EmptyId \/ ~sessionTokens[c]
    [] v = "part_001" -> id = EmptyId \/ ~tok

\* The guard of the variant that runs.
Rejected(c, id, tok) == RejectedIn(variant, c, id, tok)

\* What a rejected start sends: only server.ts tells the client.
RejectMessages(c, h) ==
  IF variant = "server"
  THEN << [conn |-> c, sess |-> h, msg |-> [type |-> "error"]] >>
  ELSE << >>

\* The payload of new-leads: only part_000 carries `total`.
NewLeadsMsg(rows, last) ==
  IF variant = "part_000"
  THEN [type |-> "new-leads", leads |-> Slice(rows, last), total |-> Len(rows)]
  ELSE [type |-> "new-leads", leads |-> Slice(rows, last)]

\* A diff that overlooks a growth of a single row.
TickMessagesSkipOne(c, h, rows, last) ==
  IF last # Sentinel /\ Len(rows) > last + 1
  THEN << [conn |-> c, sess |-> h, msg |-> NewLeadsMsg(rows, last)] >>
  ELSE << >>

\* The success branch of the interval callback: what is sent.
TickMessages(c, h, rows, last) ==
  IF last # Sentinel /\ Len(rows) > last
  THEN << [conn |-> c, sess |-> h, msg |-> NewLeadsMsg(rows, last)] >>
  ELSE << >>

\* A start that does not store the result of its baseline read.
BaselineCountUnset(rows) == Sentinel

\* A start that keeps counting from zero instead of from the baseline read.
BaselineCountZero(rows) == 0

\* lastRowCount = initialRows.length: the baseline.
BaselineCount(rows) == Len(rows)

\* A tick that stores one less than the number of rows it has read.
NewCountOffByOne(rows, last) == Len(rows) - 1

\* A tick that refuses to lower the count.
NewCountKeepMax(rows, last) == IF Len(rows) > last THEN Len(rows) ELSE last

\* lastRowCount = rows.length: assigned after every successful tick read,
\* whatever the previous value `last` was.
NewCount(rows, last) == Len(rows)

\* The failure branch of the interval callback: which interval is cleared.
\* part_000 clears the closure's own `interval`; server.ts and part_001 clear
\* whatever the connection's `monitorInterval` variable holds at that moment.
FailureCleared(c, h) ==
  IF variant = "part_000" THEN h ELSE monitorInterval[c]

\* ------------------------------------------------------------ initial state
InitState ==
  /\ variant \in Variants
  /\ connState = [c \in Conns |-> "none"]
  /\ sessionTokens = [c \in Conns |-> FALSE]
  /\ monitorInterval = [c \in Conns |-> NoHandle]
  /\ activeMonitors = [c \in Conns |-> NoHandle]
  /\ sessions = << >>
  /\ reads = << >>
  /\ sheet = [id \in SheetIds |-> << >>]
  /\ nextRow = 0
  /\ deleted = 0
  /\ ticked = 0
  /\ sent = << >>
  /\ spreadsheetId = << >>
  /\ isMonitoring = FALSE
  /\ emitted = << >>
  /\ authenticated = "loading"
  /\ logoutsPending = 0
  /\ leads = << >>
  /\ received = 0

Init == limits \in RunShapes /\ InitState

\* ------------------------------------------------------------ handlers
\* wss.on("connection") / io.on("connection"): the per-connection state.
Connection(c, tok) ==
  /\ c <= limits.conns
  /\ connState[c] = "none"
  /\ connState' = [connState EXCEPT ![c] = "open"]
  /\ sessionTokens' = [sessionTokens EXCEPT ![c] = tok]
  /\ monitorInterval' = [monitorInterval EXCEPT ![c] = NoHandle]
  /\ UNCHANGED <<clientVars, limits, deleted, variant, activeMonitors, sessions, reads, sheet, nextRow,
                 ticked, sent>>

\* Observation only: the sessions of connection c whose interval is live at the
\* moment a further start-monitoring is accepted on c.
MarkSuperseded(c) ==
  [h \in 1..Len(sessions) |->
     IF sessions[h].conn = c /\ sessions[h].interval = "live"
     THEN [sessions[h] EXCEPT !.superseded = TRUE] ELSE sessions[h]]

\* start-monitoring, up to its first await (the baseline checkLeads call).
\* The fields status, baseline, seen (the largest row count a completed read
\* returned), stoppedIn and superseded of a session record observe the run; no
\* handler reads them.
StartMonitoring(c, id, tok) ==
  /\ connState[c] = "open"
  /\ Len(sessions) < limits.sessions
  /\ LET h == Len(sessions) + 1
         rej == Rejected(c, id, tok)
     IN /\ sessions' = Append(IF rej THEN sessions ELSE MarkSuperseded(c),
               [conn |-> c, id |-> id, lastRowCount |-> Sentinel,
                interval |-> "none",
                status |-> IF rej THEN "rejected" ELSE "baselining",
                baseline |-> Sentinel, seen |-> Sentinel, stoppedIn |-> "", superseded |-> FALSE])
        /\ reads' = IF rej THEN reads
                    ELSE Append(reads, [sess |-> h, kind |-> "baseline",
                                        state |-> "pending", rows |-> << >>])
        /\ sent' = IF rej THEN sent \o RejectMessages(c, h) ELSE sent
  /\ UNCHANGED <<clientVars, limits, deleted, variant, connState, sessionTokens, monitorInterval,
                 activeMonitors, sheet, nextRow, ticked>>

\* checkLeads: the spreadsheet service answers a pending call, with the rows
\* the sheet holds at that moment (`values || []`) or with a failure (null).
\* A call with an empty spreadsheetId cannot succeed.
Serve(i, ok) ==
  /\ i \in 1..Len(reads)
  /\ reads[i].state = "pending"
  /\ ok => sessions[reads[i].sess].id # EmptyId
  /\ reads' = [reads EXCEPT ![i] =
                 IF ok THEN [@ EXCEPT !.state = "ok",
                                      !.rows = sheet[sessions[reads[i].sess].id]]
                       ELSE [@ EXCEPT !.state = "fail"]]
  /\ UNCHANGED <<clientVars, limits, deleted, variant, connState, sessionTokens, monitorInterval,
                 activeMonitors, sessions, sheet, nextRow, ticked, sent>>

\* start-monitoring, after the baseline await.
BaselineDone(i) ==
  /\ i \in 1..Len(reads)
  /\ reads[i].kind = "baseline"
  /\ reads[i].state # "pending"
  /\ LET h == reads[i].sess
         c == sessions[h].conn
     IN /\ reads' = RemoveAt(reads, i)
        /\ IF reads[i].state = "fail"
           THEN /\ sent' = Append(sent, [conn |-> c, sess |-> h,
                                         msg |-> [type |-> "error"]])
                /\ sessions' = [sessions EXCEPT ![h].status = "baselineFailed"]
                /\ UNCHANGED <<monitorInterval, activeMonitors>>
           ELSE /\ sessions' = [sessions EXCEPT
                                  ![h].lastRowCount = BaselineCount(reads[i].rows),
                                  ![h].baseline = Len(reads[i].rows),
                                  ![h].seen = Len(reads[i].rows),
                                  ![h].interval = "live",
                                  ![h].status = "active"]
                /\ monitorInterval' =
                     IF variant = "part_000" THEN monitorInterval
                     ELSE [monitorInterval EXCEPT ![c] = h]
                /\ activeMonitors' =
                     IF variant = "part_000"
                     THEN [activeMonitors EXCEPT ![c] = h]
                     ELSE activeMonitors
                /\ UNCHANGED sent
  /\ UNCHANGED <<clientVars, limits, deleted, variant, connState, sessionTokens, sheet, nextRow, ticked>>

\* The interval fires: the callback runs up to its await (a checkLeads call).
TickFire(h) ==
  /\ h \in 1..Len(sessions)
  /\ sessions[h].interval = "live"
  /\ ticked < limits.ticks
  /\ ticked' = ticked + 1
  /\ reads' = Append(reads, [sess |-> h, kind |-> "tick",
                             state |-> "pending", rows |-> << >>])
  /\ UNCHANGED <<clientVars, limits, deleted, variant, connState, sessionTokens, monitorInterval,
                 activeMonitors, sessions, sheet, nextRow, sent>>

\* The interval callback, after its await.
TickDone(i) ==
  /\ i \in 1..Len(reads)
  /\ reads[i].kind = "tick"
  /\ reads[i].state # "pending"
  /\ LET h == reads[i].sess
         c == sessions[h].conn
         rows == reads[i].rows
     IN /\ reads' = RemoveAt(reads, i)
        /\ IF reads[i].state = "ok"
           THEN /\ sent' = sent \o TickMessages(c, h, rows, sessions[h].lastRowCount)
                /\ sessions' = [sessions EXCEPT
                                  ![h].lastRowCount = NewCount(rows, @),
                                  ![h].seen = IF Len(rows) > @ THEN Len(rows) ELSE @]
                /\ UNCHANGED activeMonitors
           ELSE /\ sent' = Append(sent, [conn |-> c, sess |-> h,
                                         msg |-> [type |-> "error"]])
                /\ sessions' = ClearInterval(sessions, FailureCleared(c, h))
                /\ activeMonitors' =
                     IF variant = "part_000"
                     THEN [activeMonitors EXCEPT ![c] = NoHandle]
                     ELSE activeMonitors
  /\ UNCHANGED <<clientVars, limits, deleted, variant, connState, sessionTokens, monitorInterval, sheet,
                 nextRow, ticked>>

\* A handle kept in one variable shared by all connections: the timer created
\* last, whoever created it.
RegisteredShared(c) ==
  LET made == {h \in 1..Len(sessions) : sessions[h].interval # "none"}
  IN IF made = {} THEN NoHandle ELSE CHOOSE h \in made : \A g \in made : g <= h

\* The handle the stop-monitoring / close handlers find for the connection.
Registered(c) ==
  IF variant = "part_000" THEN activeMonitors[c] ELSE monitorInterval[c]

\* The tick reads of session h that are in flight (positions in `reads`).
TickReads(h) ==
  {i \in 1..Len(reads) : reads[i].sess = h /\ reads[i].kind = "tick"}

\* Where session h stands when a stop or disconnect is handled.
Phase(h) ==
  IF sessions[h].status = "baselining" THEN "baselining"
  ELSE IF TickReads(h) # {} THEN "reading"
  ELSE "idle"

\* What stop-monitoring and close / disconnect both do to the timers:
\* clearInterval on the handle they find. `stoppedIn` records, for every
\* session the connection has started so far, where it stood at the first stop
\* or disconnect.
StoppedSessions(c) ==
  [h \in 1..Len(sessions) |->
     LET s == ClearInterval(sessions, Registered(c))[h]
     IN IF s.conn = c /\ s.stoppedIn = ""
        THEN [s EXCEPT !.stoppedIn = Phase(h)] ELSE s]

\* A stop handler that clears the timer and forgets to delete the entry.
StoppedMonitorsKept(c) == activeMonitors

\* activeMonitors.delete(socket.id) (part_000 only).
StoppedMonitors(c) ==
  IF variant = "part_000"
  THEN [activeMonitors EXCEPT ![c] = NoHandle]
  ELSE activeMonitors

Teardown(c) ==
  /\ sessions' = StoppedSessions(c)
  /\ activeMonitors' = StoppedMonitors(c)

StopMonitoring(c) ==
  /\ connState[c] = "open"
  /\ Teardown(c)
  /\ UNCHANGED <<clientVars, limits, deleted, variant, connState, sessionTokens, monitorInterval, reads,
                 sheet, nextRow, ticked, sent>>

\* ws.on("close") / socket.on("disconnect").
Disconnect(c) ==
  /\ connState[c] = "open"
  /\ Teardown(c)
  /\ connState' = [connState EXCEPT ![c] = "closed"]
  /\ UNCHANGED <<clientVars, limits, deleted, variant, sessionTokens, monitorInterval, reads, sheet,
                 nextRow, ticked, sent>>

\* ------------------------------------------------------------ environment
\* Somebody appends a row to a spreadsheet; the row's content is its number.
AppendRow(id) ==
  /\ nextRow < limits.appends
  /\ nextRow' = nextRow + 1
  /\ sheet' = [sheet EXCEPT ![id] = Append(@, nextRow + 1)]
  /\ UNCHANGED <<clientVars, limits, deleted, variant, connState, sessionTokens, monitorInterval,
                 activeMonitors, sessions, reads, ticked, sent>>

\* Somebody deletes the last row of a spreadsheet.
DeleteRow(id) ==
  /\ deleted < limits.deletes
  /\ Len(sheet[id]) > 0
  /\ deleted' = deleted + 1
  /\ sheet' = [sheet EXCEPT ![id] = SubSeq(@, 1, Len(@) - 1)]
  /\ UNCHANGED <<clientVars, limits, variant, connState, sessionTokens, monitorInterval,
                 activeMonitors, sessions, reads, nextRow, ticked, sent>>

Next ==
  \/ \E c \in Conns, tok \in BOOLEAN : Connection(c, tok)
  \/ \E c \in Conns, id \in SheetIds \cup {EmptyId}, tok \in BOOLEAN :
        StartMonitoring(c, id, tok)
  \/ \E i \in 1..Len(reads), ok \in BOOLEAN : Serve(i, ok)
  \/ \E i \in 1..Len(reads) : BaselineDone(i)
  \/ \E h \in 1..Len(sessions) : TickFire(h)
  \/ \E i \in 1..Len(reads) : TickDone(i)
  \/ \E c \in Conns : StopMonitoring(c)
  \/ \E c \in Conns : Disconnect(c)
  \/ \E id \in SheetIds : AppendRow(id)
  \/ \E id \in SheetIds : DeleteRow(id)

Spec == Init /\ [][Next]_vars

\* The runs of LiveShape, under the scheduling the runtime gives:
\* a live interval keeps firing, the spreadsheet service answers every call
\* (with rows or with a failure), and the continuation of an answered call
\* runs.
InitLive == Init /\ limits = LiveShape

Fairness ==
  /\ WF_vars(\E h \in 1..Len(sessions) : TickFire(h))
  /\ WF_vars(\E i \in 1..Len(reads), ok \in BOOLEAN : Serve(i, ok))
  /\ WF_vars(\E i \in 1..Len(reads) : BaselineDone(i))
  /\ WF_vars(\E i \in 1..Len(reads) : TickDone(i))

SpecLive == InitLive /\ [][Next]_vars /\ Fairness

\* ------------------------------------------------------------ the client
\* Strings are sequences of characters; the input is typed over this alphabet.
Chars   == {"/", "d", "x"}
DMarker == <<"/", "d", "/">>
Slash   == <<"/">>

\* pat occurs in s at position k (counted from 1).
OccursAt(s, pat, k) ==
  /\ k >= 1 /\ k + Len(pat) - 1 <= Len(s)
  /\ SubSeq(s, k, k + Len(pat) - 1) = pat

\* String.prototype.indexOf, counted from 1; 0 when pat does not occur.
IndexOf(s, pat) ==
  LET at == {k \in 1..Len(s) : OccursAt(s, pat, k)}
  IN IF at = {} THEN 0 ELSE CHOOSE k \in at : \A m \in at : k <= m

\* String.prototype.includes.
Includes(s, pat) == IndexOf(s, pat) # 0

\* String.prototype.split with a non-empty string separator: the pieces
\* between successive occurrences, scanned left to right without overlap.
RECURSIVE Split(_, _)
Split(s, sep) ==
  LET k == IndexOf(s, sep)
  IN IF k = 0 THEN << s >>
     ELSE << SubSeq(s, 1, k - 1) >> \o Split(SubSeq(s, k + Len(sep), Len(s)), sep)

\* A normalization that forgets the second split.
NormalizeIdUncut(s) ==
  IF Includes(s, DMarker) THEN Split(s, DMarker)[2] ELSE s

\* if (id.includes("/d/")) id = id.split("/d/")[1].split("/")[0];
\* JavaScript counts array elements from 0, TLA+ from 1.
NormalizeId(s) ==
  IF Includes(s, DMarker) THEN Split(Split(s, DMarker)[2], Slash)[1] ELSE s

\* checkAuthStatus, run once on mount: until it has an answer the page shows
\* "Loading..."; a failed fetch counts as not authenticated.
CheckAuthStatus(ok) ==
  /\ authenticated = "loading"
  /\ authenticated' = IF ok THEN "yes" ELSE "no"
  /\ UNCHANGED <<serverVars, feedVars, spreadsheetId, isMonitoring, emitted,
                 logoutsPending>>

\* handleConnect, up to the OAUTH_AUTH_SUCCESS message of the popup.
OAuthSuccess ==
  /\ authenticated = "no"
  /\ authenticated' = "yes"
  /\ UNCHANGED <<serverVars, feedVars, spreadsheetId, isMonitoring, emitted,
                 logoutsPending>>

\* handleLogout, up to its await: the Logout button is shown while
\* authenticated.
ClickLogout ==
  /\ authenticated = "yes"
  /\ logoutsPending < MaxLogouts
  /\ logoutsPending' = logoutsPending + 1
  /\ UNCHANGED <<serverVars, feedVars, spreadsheetId, isMonitoring, emitted,
                 authenticated>>

\* handleLogout, after its await: whatever isMonitoring is, it is set to
\* false and stop-monitoring is emitted. A rejected fetch ends the call there.
LogoutResumes(ok) ==
  /\ logoutsPending > 0
  /\ logoutsPending' = logoutsPending - 1
  /\ IF ok
     THEN /\ Len(emitted) < limits.emits
          /\ authenticated' = "no"
          /\ isMonitoring' = FALSE
          /\ emitted' = Append(emitted, [type |-> "stop-monitoring",
                                         spreadsheetId |-> << >>])
     ELSE UNCHANGED <<authenticated, isMonitoring, emitted>>
  /\ UNCHANGED <<serverVars, feedVars, spreadsheetId>>

\* socket.on("monitoring-error"): setIsMonitoring(false), nothing emitted.
MonitoringError ==
  /\ isMonitoring' = FALSE
  /\ UNCHANGED <<serverVars, feedVars, authVars, spreadsheetId, emitted>>

\* The texts of at most n characters.
RECURSIVE Texts(_)
Texts(n) ==
  IF n = 0 THEN { << >> }
  ELSE LET shorter == Texts(n - 1)
       IN shorter \cup {Append(s, ch) : s \in shorter, ch \in Chars}

\* What the field holds after one key: a character typed at the end of s, or
\* the last character of s deleted.
Typed(s) ==
  {Append(s, ch) : ch \in Chars}
    \cup (IF s = << >> THEN {} ELSE {SubSeq(s, 1, Len(s) - 1)})

\* e.target.value: the values the change event of the input field carries in
\* this run, from a key or from a text entered at once (the empty text when
\* the field is cleared).
InputValues ==
  {v \in Typed(spreadsheetId) \cup Texts(limits.pastes) : Len(v) <= limits.idLen}

\* onChange of the input field (shown while authenticated, disabled while
\* monitoring): setSpreadsheetId(e.target.value), whatever the field held.
SetSpreadsheetId(value) ==
  /\ authenticated = "yes"
  /\ ~isMonitoring
  /\ spreadsheetId' = value
  /\ UNCHANGED <<serverVars, feedVars, authVars, isMonitoring, emitted>>

\* startMonitoring: the Start button is shown while authenticated and not
\* monitoring.
ClickStart ==
  /\ authenticated = "yes"
  /\ ~isMonitoring
  /\ Len(emitted) < limits.emits
  /\ IF spreadsheetId = << >>
     THEN UNCHANGED <<isMonitoring, emitted>>
     ELSE /\ isMonitoring' = TRUE
          /\ emitted' = Append(emitted, [type |-> "start-monitoring",
                                         spreadsheetId |-> NormalizeId(spreadsheetId)])
  /\ UNCHANGED <<serverVars, feedVars, authVars, spreadsheetId>>

\* stopMonitoring: the Stop button is shown while authenticated and
\* monitoring.
ClickStop ==
  /\ authenticated = "yes"
  /\ isMonitoring
  /\ Len(emitted) < limits.emits
  /\ isMonitoring' = FALSE
  /\ emitted' = Append(emitted, [type |-> "stop-monitoring",
                                 spreadsheetId |-> << >>])
  /\ UNCHANGED <<serverVars, feedVars, authVars, spreadsheetId>>

NextClient ==
  \/ \E ok \in BOOLEAN : CheckAuthStatus(ok)
  \/ OAuthSuccess
  \/ ClickLogout
  \/ \E ok \in BOOLEAN : LogoutResumes(ok)
  \/ MonitoringError
  \/ \E value \in InputValues : SetSpreadsheetId(value)
  \/ ClickStart
  \/ ClickStop

\* The client is the socket.io client that part_000 serves; the servers stand
\* still in the runs of the client.
InitClient == limits \in ClientShapes /\ variant = "part_000" /\ InitState

SpecClient == InitClient /\ [][NextClient]_vars

\* ------------------------------------------------------------ the feed
FeedLimit == 50       \* .slice(0, 50)

\* The sizes of the batches the client receives: small ones and ones around
\* the limit.
BatchSizes == {1, 2, FeedLimit - 1, FeedLimit, FeedLimit + 1}

\* Array.prototype.slice(0, n).
Take(s, n) == SubSeq(s, 1, IF Len(s) < n THEN Len(s) ELSE n)

\* The n-th batch the client receives, of the given size: its rows, in order.
\* (The handler wraps each row with a timestamp, left out here.)
Batch(n, size) == [j \in 1..size |-> <<n, j>>]

\* A feed that puts the new batch behind the old leads.
FeedAfterAtTail(batch, prev) == Take(prev \o batch, FeedLimit)

\* setLeads(prev => [...newLeads, ...prev].slice(0, 50))
FeedAfter(batch, prev) == Take(batch \o prev, FeedLimit)

\* socket.on("new-leads").
ReceiveNewLeads(size) ==
  /\ received < MaxBatches
  /\ received' = received + 1
  /\ leads' = FeedAfter(Batch(received + 1, size), leads)
  /\ UNCHANGED <<serverVars, authVars, spreadsheetId, isMonitoring, emitted>>

\* Clear Feed: setLeads([]); the button is shown while authenticated.
ClearFeed ==
  /\ authenticated = "yes"
  /\ leads' = << >>
  /\ UNCHANGED <<serverVars, authVars, spreadsheetId, isMonitoring, emitted,
                 received>>

NextFeed ==
  \/ \E ok \in BOOLEAN : CheckAuthStatus(ok)
  \/ OAuthSuccess
  \/ ClickLogout
  \/ \E ok \in BOOLEAN : LogoutResumes(ok)
  \/ \E size \in BatchSizes : ReceiveNewLeads(size)
  \/ ClearFeed

SpecFeed == InitClient /\ [][NextFeed]_vars

\* ------------------------------------------------------------ observations
Handles == 1..Len(sessions)

\* The messages session h has sent, in order.
SentBy(h) == SelectSeq(sent, LAMBDA m : m.sess = h)

ErrorsBy(h) == SelectSeq(sent, LAMBDA m : m.sess = h /\ m.msg.type = "error")

RECURSIVE ConcatLeads(_)
ConcatLeads(ms) ==
  IF ms = << >> THEN << >>
  ELSE (IF Head(ms).msg.type = "new-leads" THEN Head(ms).msg.leads ELSE << >>)
       \o ConcatLeads(Tail(ms))

\* All rows session h has sent in new-leads batches, in sending order.
Emitted(h) == ConcatLeads(SentBy(h))

\* The sessions of connection c that are Baselining or Active.
LiveSessions(c) ==
  {h \in Handles : /\ sessions[h].conn = c
                   /\ \/ sessions[h].status = "baselining"
                      \/ sessions[h].interval = "live"}

\* The registry entry of a connection: the activeMonitors entry in part_000,
\* the handle in monitorInterval while its interval is live in the ws variants.
RegistryEntry(c) ==
  IF variant = "part_000" THEN activeMonitors[c]
  ELSE IF monitorInterval[c] # NoHandle
          /\ sessions[monitorInterval[c]].interval = "live"
       THEN monitorInterval[c]
       ELSE NoHandle

\* ------------------------------------------------------------ claims

\* C1: for one session reads never overlap: at most one tick read of a session
\* is in flight in every reachable state.
C1_ReadsNeverOverlap ==
  \A h \in Handles : Cardinality(TickReads(h)) <= 1

\* C2: once a stop-monitoring or disconnect has been handled while a tick read
\* of the session was in flight, the session sends no further message and its
\* timer is not live, whatever the read returns.
C2_NoEmissionAfterCancel ==
  [][\A h \in Handles :
        sessions[h].stoppedIn = "reading"
        => /\ sessions[h].interval # "live"
           /\ SentBy(h)' = SentBy(h)
           /\ Cardinality(TickReads(h))' <= Cardinality(TickReads(h))]_vars

\* C3: once a second start-monitoring has been accepted on a connection whose
\* session was active, the first session's timer is not live, it starts no
\* tick read and it sends no message.
C3_SecondStartCancelsFirst ==
  [][\A h \in Handles :
        sessions[h].superseded
        => /\ sessions[h].interval # "live"
           /\ SentBy(h)' = SentBy(h)
           /\ Cardinality(TickReads(h))' <= Cardinality(TickReads(h))]_vars

\* C4: for a session whose reads all succeeded on an append-only sheet, the
\* rows sent in new-leads batches are consecutive rows of the sheet from index
\* baseline on, in source order, none sent twice; and once no tick read is in
\* flight they reach up to the largest row count a read has returned.
C4_EveryRowExactlyOnce ==
  \A h \in Handles :
     (sessions[h].status = "active" /\ ErrorsBy(h) = << >> /\ deleted = 0)
     => LET b == sessions[h].baseline
            e == Emitted(h)
        IN /\ b + Len(e) <= Len(sheet[sessions[h].id])
           /\ e = SubSeq(sheet[sessions[h].id], b + 1, b + Len(e))
           /\ TickReads(h) = {} => b + Len(e) = sessions[h].seen

\* C5: a tick whose read succeeds with n rows while lastRowCount = k sends
\* nothing when n <= k, and when n > k sends exactly one new-leads message with
\* leads rows[k..n-1] and total = n.
C5_SingleTickDelta ==
  [][\A i \in 1..Len(reads) :
        (TickDone(i) /\ reads[i].state = "ok")
        => LET h == reads[i].sess
               k == sessions[h].lastRowCount
               n == Len(reads[i].rows)
           IN IF n <= k
              THEN sent' = sent
              ELSE /\ Len(sent') = Len(sent) + 1
                   /\ SubSeq(sent', 1, Len(sent)) = sent
                   /\ LET m == sent'[Len(sent')].msg
                      IN /\ sent'[Len(sent')].sess = h
                         /\ m.type = "new-leads"
                         /\ m.leads = SubSeq(reads[i].rows, k + 1, n)
                         /\ Len(m.leads) = n - k
                         /\ "total" \in DOMAIN m
                         /\ m.total = n]_vars

\* C6: a session that was Baselining when a stop-monitoring or disconnect was
\* handled never gets a timer, never is registered and never reads again.
C6_StopWhileBaseliningIsEffective ==
  \A h \in Handles :
     sessions[h].stoppedIn = "baselining"
     => /\ sessions[h].interval = "none"
        /\ RegistryEntry(sessions[h].conn) # h
        /\ TickReads(h) = {}

\* C7: once a stop-monitoring or disconnect has been handled and the starts
\* that were in progress have finished, no timer of a session the connection
\* had started by then is live.
C7_NoOrphanedTimer ==
  \A h \in Handles :
     (sessions[h].stoppedIn # "" /\ sessions[h].status # "baselining")
     => sessions[h].interval # "live"

\* C8: each connection has at most one session that is Baselining or Active.
C8_AtMostOneSessionPerConnection ==
  \A c \in Conns : Cardinality(LiveSessions(c)) <= 1

\* C9: after a tick read of a session has failed, that session has sent
\* exactly one error message, its own timer is released and the registry does
\* not hold it.
C9_PollFailureEndsSession ==
  \A h \in Handles :
     (sessions[h].status = "active" /\ ErrorsBy(h) # << >>)
     => /\ Len(ErrorsBy(h)) = 1
        /\ sessions[h].interval # "live"
        /\ RegistryEntry(sessions[h].conn) # h

\* C10: when the baseline read of a start-monitoring fails, exactly one error
\* message is sent, no timer is scheduled by that start, and right afterwards
\* the registry holds no entry for the connection.
C10_BaselineFailure ==
  [][\A i \in 1..Len(reads) : \A h \in Handles : \A c \in Conns :
        (/\ BaselineDone(i)
         /\ reads[i].state = "fail"
         /\ reads[i].sess = h
         /\ sessions[h].conn = c)
        => /\ Len(ErrorsBy(h))' = 1
           /\ Len(sent') = Len(sent) + 1
           /\ sessions'[h].interval = "none"
           /\ RegistryEntry(c)' = NoHandle]_vars

\* A stop-monitoring handled now would change nothing for connection c.
StopChangesNothing(c) ==
  /\ StoppedSessions(c) = sessions
  /\ StoppedMonitors(c) = activeMonitors

\* C11: stop-monitoring is idempotent. Whether or not the connection has a
\* session, handling a stop sends no message and leaves no registry entry for
\* the connection, and the state it leaves is one that a further stop does not
\* change: k >= 1 stops in succession leave the state one stop leaves.
C11_StopIsIdempotent ==
  [][\A c \in Conns :
       StopMonitoring(c)
       => /\ sent' = sent
          /\ RegistryEntry(c)' = NoHandle
          /\ StopChangesNothing(c)']_vars

\* C11 witness: a stop has been handled for a session whose timer was running,
\* the timer is cleared, nothing was sent and the connection is still open for
\* the next stop.
C11_Witness ==
  \E h \in Handles :
     /\ sessions[h].stoppedIn = "idle"
     /\ sessions[h].interval = "cleared"
     /\ connState[sessions[h].conn] = "open"
     /\ RegistryEntry(sessions[h].conn) = NoHandle
     /\ SentBy(h) = << >>

\* C12: while the session is active, lastRowCount never decreases across a
\* tick.
C12_LastRowCountMonotone ==
  [][\A i \in 1..Len(reads) : \A h \in Handles :
       (TickDone(i) /\ reads[i].sess = h)
       => sessions'[h].lastRowCount >= sessions[h].lastRowCount]_vars

\* C12 as amended: lastRowCount does not decrease across a tick whose read
\* failed or returned at least lastRowCount rows; a read that returns fewer
\* rows lowers it.
C12_MonotoneUnlessFewerRows ==
  [][\A i \in 1..Len(reads) : \A h \in Handles : \A n \in 0..MaxAppends :
       (TickDone(i) /\ reads[i].sess = h /\ Len(reads[i].rows) = n)
       => /\ (reads[i].state = "fail" \/ n >= sessions[h].lastRowCount)
                => sessions'[h].lastRowCount >= sessions[h].lastRowCount
          /\ (reads[i].state = "ok" /\ n < sessions[h].lastRowCount)
                => sessions'[h].lastRowCount < sessions[h].lastRowCount]_vars

\* C12 witness: a session whose count grew across one tick and was lowered by
\* another, on a sheet a row has been deleted from, its timer still running.
C12_Witness ==
  \E h \in Handles :
     /\ deleted > 0
     /\ sessions[h].baseline < sessions[h].seen
     /\ sessions[h].lastRowCount < sessions[h].seen
     /\ sessions[h].interval = "live"

\* C13: after every successful tick read returning n rows lastRowCount is n,
\* whatever it was. When n is smaller than the previous lastRowCount nothing
\* is sent and the session's timer and status are as before; when n is larger
\* than the lastRowCount an earlier, smaller read left, exactly the rows from
\* that index on (rows[last .. n-1]) are sent as new-leads.
C13_DecreaseAcceptedSilently ==
  [][\A i \in 1..Len(reads) : \A h \in Handles :
       (TickDone(i) /\ reads[i].sess = h /\ reads[i].state = "ok")
       => LET n    == Len(reads[i].rows)
              last == sessions[h].lastRowCount
          IN /\ sessions'[h].lastRowCount = n
             /\ n < last => /\ sent' = sent
                            /\ sessions'[h].interval = sessions[h].interval
                            /\ sessions'[h].status = sessions[h].status
             /\ n > last => /\ Len(sent') = Len(sent) + 1
                            /\ sent'[Len(sent')].sess = h
                            /\ sent'[Len(sent')].msg.type = "new-leads"
                            /\ sent'[Len(sent')].msg.leads
                                 = SubSeq(reads[i].rows, last + 1, n)]_vars

\* C13 witness: after a row was deleted, a session with a baseline of at least
\* one row has sent a row that stands at an index below that baseline: a tick
\* adopted the smaller count and a later tick diffed against it. No error was
\* sent and the timer is still running.
C13_Witness ==
  \E h \in Handles :
     /\ deleted > 0
     /\ sessions[h].baseline >= 1
     /\ sessions[h].interval = "live"
     /\ ErrorsBy(h) = << >>
     /\ Emitted(h) # << >>
     /\ \E j \in 1..sessions[h].baseline :
           /\ j <= Len(sheet[sessions[h].id])
           /\ sheet[sessions[h].id][j] = Emitted(h)[1]

\* C14: in every variant a start-monitoring with an empty spreadsheet id is
\* rejected before any read: the request never gets as far as a baseline read,
\* a timer or a session.
C14_EmptyIdRejectedBeforeRead ==
  \A h \in Handles :
     sessions[h].id = EmptyId
     => /\ sessions[h].status = "rejected"
        /\ sessions[h].interval = "none"
        /\ \A i \in 1..Len(reads) : reads[i].sess # h

\* C15: a start-monitoring handled without credentials starts nothing: no read
\* is issued, no timer is created, and the registry, the timers and the
\* sessions that exist are left as they were.
C15_NoCredentialsNoSession ==
  [][\A c \in Conns : \A id \in SheetIds \cup {EmptyId} : \A tok \in BOOLEAN :
       (StartMonitoring(c, id, tok) /\ ~HasCredentials(c, tok))
       => /\ reads' = reads
          /\ monitorInterval' = monitorInterval
          /\ activeMonitors' = activeMonitors
          /\ SubSeq(sessions', 1, Len(sessions)) = sessions
          /\ sessions'[Len(sessions')].status = "rejected"
          /\ sessions'[Len(sessions')].interval = "none"]_vars

\* C15 witness: a start with a well-formed spreadsheet id was turned down for
\* want of credentials.
C15_Witness ==
  \E h \in Handles :
     /\ sessions[h].status = "rejected"
     /\ sessions[h].id # EmptyId
     /\ sessions[h].interval = "none"

\* C16: every rejected start is surfaced: the connection is sent an error
\* message, so no start ends without a session or an error.
C16_RejectionIsSurfaced ==
  \A h \in Handles :
     sessions[h].status = "rejected" => ErrorsBy(h) # << >>

\* Everything the server holds for connection b: its state, credentials,
\* timer handle and registry entry, the sessions it started (timer,
\* lastRowCount and the rest), and the messages sent to it.
ConnView(b) ==
  << connState[b], sessionTokens[b], monitorInterval[b], activeMonitors[b],
     [h \in {g \in Handles : sessions[g].conn = b} |-> sessions[h]],
     SelectSeq(sent, LAMBDA m : m.conn = b) >>

\* The step is an event of connection a: one of its handlers runs, one of its
\* timers fires, or a read of one of its sessions is answered or resumes.
EventOn(a) ==
  \/ \E tok \in BOOLEAN : Connection(a, tok)
  \/ \E id \in SheetIds \cup {EmptyId}, tok \in BOOLEAN : StartMonitoring(a, id, tok)
  \/ StopMonitoring(a)
  \/ Disconnect(a)
  \/ \E h \in Handles : sessions[h].conn = a /\ TickFire(h)
  \/ \E i \in 1..Len(reads) :
        /\ sessions[reads[i].sess].conn = a
        /\ \/ \E ok \in BOOLEAN : Serve(i, ok)
           \/ BaselineDone(i)
           \/ TickDone(i)

\* C17: the sessions of different connections are independent: an event on
\* connection a (start, stop, tick, failure, disconnect) leaves every other
\* connection's registry entry, timers and lastRowCount as they were, and
\* whatever it sends is not sent to another connection.
C17_ConnectionsAreIndependent ==
  [][\A a \in Conns : \A b \in Conns \ {a} :
       ConnView(b)' = ConnView(b) \/ ~EventOn(a)]_vars

\* C17 witness: two connections each with a session past its baseline; the
\* one has had a failed tick, was sent an error and lost its timer, the
\* other's timer is still running and it was sent nothing.
C17_Witness ==
  \E h \in Handles : \E g \in Handles :
     /\ sessions[h].conn # sessions[g].conn
     /\ sessions[h].status = "active" /\ sessions[g].status = "active"
     /\ sessions[h].interval = "cleared" /\ ErrorsBy(h) # << >>
     /\ sessions[g].interval = "live" /\ SentBy(g) = << >>

\* The part of s between its first "/d/" and the next "/" after it, or the
\* end of s when no "/" follows.
SegmentAfterMarker(s) ==
  LET from == IndexOf(s, DMarker) + Len(DMarker)
      ends == {j \in from..Len(s) : s[j] = "/"}
  IN IF ends = {} THEN SubSeq(s, from, Len(s))
     ELSE SubSeq(s, from, (CHOOSE j \in ends : \A m \in ends : j <= m) - 1)

\* C18: the client's normalization of the spreadsheet id. If the text entered
\* contains "/d/", the id sent with start-monitoring is exactly the segment
\* between the first "/d/" and the next "/" (or the end of the text); a text
\* without the marker is sent unchanged; with an empty text nothing is sent.
C18_ClientNormalizesId ==
  [][ClickStart
     => IF spreadsheetId = << >> THEN emitted' = emitted
        ELSE emitted' = Append(emitted,
               [type |-> "start-monitoring",
                spreadsheetId |-> IF \E k \in 1..Len(spreadsheetId) :
                                        OccursAt(spreadsheetId, DMarker, k)
                                  THEN SegmentAfterMarker(spreadsheetId)
                                  ELSE spreadsheetId])]_vars

\* C18 witness: the client has sent a start-monitoring for a text that has
\* something before the marker, a non-empty segment after it and more text
\* after the segment, and the id sent is shorter than the text.
C18_Witness ==
  /\ isMonitoring
  /\ emitted # << >>
  /\ IndexOf(spreadsheetId, DMarker) > 1
  /\ LET id == emitted[Len(emitted)].spreadsheetId
     IN /\ emitted[Len(emitted)].type = "start-monitoring"
        /\ Len(id) >= 1
        /\ IndexOf(spreadsheetId, DMarker) + Len(DMarker) + Len(id)
             <= Len(spreadsheetId)

\* C19: an error message is the last message of its session: the session
\* sends no new-leads and no second error after it, not even from a read that
\* was in flight when the error was sent.
C19_ErrorIsLastMessage ==
  \A h \in Handles :
     \A k \in 1..Len(SentBy(h)) :
        SentBy(h)[k].msg.type = "error" => k = Len(SentBy(h))

\* The session has ended: its timer does not run and none of its reads is in
\* flight.
Ended(h) ==
  /\ sessions[h].status # "baselining"
  /\ sessions[h].interval # "live"
  /\ \A i \in 1..Len(reads) : reads[i].sess # h

\* C20: a session is never reused. Every accepted start begins from the
\* sentinel with a baseline read of its own, and the session diffs against
\* that baseline only: on a sheet that only grows, no row that was in the
\* sheet when the baseline was read (such as a row appended between the end
\* of an earlier session and this baseline) is ever sent as new-leads.
C20_FreshBaselinePerSession ==
  \A h \in Handles :
     /\ sessions[h].status = "baselining"
          => /\ sessions[h].lastRowCount = Sentinel
             /\ \E i \in 1..Len(reads) :
                   reads[i].sess = h /\ reads[i].kind = "baseline"
     /\ (sessions[h].status = "active" /\ deleted = 0)
          => /\ sessions[h].lastRowCount >= sessions[h].baseline
             /\ \A j \in 1..Len(Emitted(h)) : \A k \in 1..sessions[h].baseline :
                   sheet[sessions[h].id][k] # Emitted(h)[j]

\* C20 witness: a first session took its baseline, was stopped while idle
\* and has ended having sent nothing; a row was appended; a second session,
\* started after that stop on the same connection and sheet, took a larger
\* baseline and has since sent a row.
C20_Witness ==
  \E g \in Handles : \E h \in Handles :
     /\ g < h
     /\ sessions[g].conn = sessions[h].conn /\ sessions[g].id = sessions[h].id
     /\ sessions[g].status = "active" /\ sessions[g].stoppedIn = "idle"
     /\ Ended(g) /\ SentBy(g) = << >> /\ ~sessions[g].superseded
     /\ sessions[h].status = "active" /\ sessions[h].stoppedIn = ""
     /\ sessions[g].lastRowCount < sessions[h].baseline
     /\ Emitted(h) # << >>

\* The new-leads messages session h has sent.
LeadsBy(h) == SelectSeq(sent, LAMBDA m : m.sess = h /\ m.msg.type = "new-leads")

\* Session h is active, was never stopped or disconnected, and none of its
\* reads has failed.
Healthy(h) ==
  /\ h \in Handles
  /\ sessions[h].status = "active"
  /\ sessions[h].stoppedIn = ""
  /\ connState[sessions[h].conn] = "open"
  /\ ErrorsBy(h) = << >>
  /\ \A i \in 1..Len(reads) : reads[i].sess = h => reads[i].state # "fail"

\* The sheet holds more rows than session h has accounted for, and the
\* session's timer has a firing to come.
Behind(h) ==
  /\ Healthy(h)
  /\ sessions[h].interval = "live"
  /\ ticked < limits.ticks
  /\ Len(sheet[sessions[h].id]) > sessions[h].lastRowCount

\* C21: liveness. When an active session is behind the sheet, then unless it
\* is stopped or disconnected, a read of it fails, or a row is deleted, a
\* further new-leads message is eventually sent by it (k counts the new-leads
\* it has sent, d the rows deleted so far).
C21_NewLeadsEventuallySent ==
  \A h \in 1..LongSessions : \A k \in 0..(MaxTicks - 1) : \A d \in 0..MaxDeletes :
     (Behind(h) /\ Len(LeadsBy(h)) = k /\ deleted = d)
       ~> (Len(LeadsBy(h)) > k \/ ~Healthy(h) \/ deleted > d)

\* C21 witness: a session that was never stopped and never failed has sent
\* rows appended after its baseline, and its timer is still running.
C21_Witness ==
  \E h \in Handles :
     /\ Healthy(h)
     /\ sessions[h].interval = "live"
     /\ LeadsBy(h) # << >>
     /\ sessions[h].lastRowCount = Len(sheet[sessions[h].id])
     /\ sessions[h].lastRowCount > sessions[h].baseline

\* C22: the three server variants implement the same core. For the same
\* start-monitoring on a connection with credentials present, every variant
\* makes the decision the running variant makes: a read is started by it
\* exactly when each of the variants would start one, and nothing is sent.
C22_VariantsStartReadsAlike ==
  [][\A c \in Conns : \A id \in SheetIds \cup {EmptyId} : \A tok \in BOOLEAN :
       (StartMonitoring(c, id, tok) /\ sessionTokens[c] /\ tok)
       => /\ sent' = sent
          /\ \A v \in Variants :
                (Len(reads') = Len(reads) + 1) <=> ~RejectedIn(v, c, id, tok)]_vars

\* The timers of connection c that are running.
LiveTimers(c) ==
  {h \in Handles : sessions[h].conn = c /\ sessions[h].interval = "live"}

\* C23: registry and timers agree in part_000. In every reachable state
\* activeMonitors holds an entry for a connection exactly when the connection
\* has a live timer, and the handle registered is that timer; so the failure
\* of one session's tick never removes the entry of another, newer session.
C23_RegistryMatchesTimers ==
  variant = "part_000"
  => \A c \in Conns :
        /\ activeMonitors[c] # NoHandle <=> LiveTimers(c) # {}
        /\ activeMonitors[c] # NoHandle => LiveTimers(c) = {activeMonitors[c]}

\* C25: the sentinel is never observed by a tick. A session whose timer has
\* been created, or one of whose interval callbacks is running, has a
\* lastRowCount >= 0: the timer is created only after the baseline read has
\* set it, so the guard lastRowCount !== -1 is always true.
C25_TickNeverSeesSentinel ==
  \A h \in Handles :
     (sessions[h].interval # "none" \/ TickReads(h) # {})
     => /\ sessions[h].lastRowCount # Sentinel
        /\ sessions[h].lastRowCount >= 0

\* C25 witness: an interval callback of a session is running (its read is in
\* flight) and the session's baseline found an empty sheet: lastRowCount is 0.
C25_Witness ==
  \E h \in Handles :
     /\ TickReads(h) # {}
     /\ sessions[h].baseline = 0
     /\ sessions[h].lastRowCount = 0

\* C24: the client's feed is bounded. After any sequence of new-leads
\* messages and Clear Feed actions the feed holds at most 50 entries; and
\* after each new-leads message the rows of its batch, up to the first 50 and
\* in the batch's order, are at the head of the feed, followed by the leads
\* the feed held before, in their order, as far as the limit lets them in.
C24_FeedIsBounded ==
  [][/\ Len(leads') <= FeedLimit
     /\ \A size \in BatchSizes :
          ReceiveNewLeads(size)
          => LET batch == Batch(received + 1, size)
                 kept  == IF size < FeedLimit THEN size ELSE FeedLimit
             IN /\ Len(leads') >= kept
                /\ \A j \in 1..kept : leads'[j] = batch[j]
                /\ \A j \in (kept + 1)..Len(leads') : leads'[j] = leads[j - kept]
                /\ Len(leads') = IF kept + Len(leads) < FeedLimit
                                 THEN kept + Len(leads) ELSE FeedLimit]_vars

\* C24 witness: the feed is full after three batches: at its head stands the
\* first row of the latest batch, at its tail a lead of the batch before it,
\* and the leads of the first batch have been pushed out.
C24_Witness ==
  /\ Len(leads) = FeedLimit
  /\ received >= 3
  /\ leads[1] = <<received, 1>>
  /\ leads[FeedLimit][1] = received - 1

====
